---- MODULE Spec2Model ----
(***************************************************************************)
(* MotionBridge: the non-linear timeline scale of the handoff view.        *)
(*                                                                         *)
(* createVisualTimeScale(tracks) collects the start and end of every       *)
(* property, walks the segments between adjacent time points, compresses   *)
(* the idle ones to at most MAX_EMPTY_GAP_VISUAL visual units and returns  *)
(* getPercent, the piecewise-linear map from real time to a percentage.    *)
(*                                                                         *)
(* Numbers.  Delays, durations and query times are integers.  getPercent   *)
(* divides, so its result is kept as an exact fraction [num, den] in       *)
(* lowest terms with den > 0; den = 0 stands for the NaN or Infinity that  *)
(* a division by zero yields.  The midpoint (tStart + tEnd) / 2 is         *)
(* compared after doubling both sides.  Floating-point rounding is not     *)
(* modelled.                                                               *)
(***************************************************************************)
EXTENDS Integers, Sequences, FiniteSets, TLC

VARIABLES
    tracks,               \* the AnimationTrack[] handed to createVisualTimeScale
    pc,                   \* "init": nothing built; "ready": scale built; "queried": getPercent returned
    sortedPoints,         \* sortedPoints of the last build
    visualMap,            \* visualMap of the last build: <<[real, visual], ...>>
    totalVisualDuration,  \* totalVisualDuration of the last build
    totalDuration,        \* maxRealDuration, returned as totalDuration
    realTime,             \* argument of the last getPercent call
    percent,              \* result of the last getPercent call, a fraction
    exported,             \* the scale handleDownloadHTML computed inline for the group
    group,                \* the AnimationGroup PropertyControls edits
    draggedTrackIndex,    \* index (1-based) of the track being dragged; 0 is null
    draggedProp,          \* [trackIndex, propIndex] of the property being dragged; 0, 0 is null
    project,              \* the ProjectState of App: [groups, activeGroupId]
    rendered              \* FALSE once a render of App has thrown

exportVars == <<exported>>

editorVars == <<group, draggedTrackIndex, draggedProp>>

projectVars == <<project, rendered>>

scaleVars == <<tracks, pc, sortedPoints, visualMap, totalVisualDuration,
               totalDuration, realTime, percent>>

vars == <<tracks, pc, sortedPoints, visualMap, totalVisualDuration,
          totalDuration, realTime, percent, exportVars, editorVars, projectVars>>

----------------------------------------------------------------------------
(* Bounds of the model *)

MaxTracks == 1
MaxProps == 2
MaxEditorTracks == 2
MaxGroupProps == 2
MaxDragTracks == 3
MaxDragProps == 3
MaxTimingTracks == 2
MaxTimingProps == 1
MaxGroups == 3
MaxGroupTracks == 1
MaxFileGroups == 2

(* Program constant *)
MAX_EMPTY_GAP_VISUAL == 60

----------------------------------------------------------------------------
(* Inputs *)

DelayValues == {-40, 0, 50, 120}
DurationValues == {-20, 0, 40, 150}

\* An AnimatedProperty, reduced to the two fields the scale reads.
Property == [delay : DelayValues, duration : DurationValues]

Prop(d, u) == [delay |-> d, duration |-> u]

Track(ps) == [properties |-> ps]

SeqUpTo(S, n) == UNION {[1..k -> S] : k \in 0..n}

\* cuts[j] is the number of properties in tracks 1..j.
Cuts(n, k) ==
    {c \in [1..k -> 0..n] :
        /\ \A j \in 1..k : j < k => c[j] <= c[j + 1]
        /\ (k = 0 => n = 0)
        /\ (k > 0 => c[k] = n)}

Split(flat, c) ==
    [j \in DOMAIN c |->
        Track(SubSeq(flat, (IF j = 1 THEN 0 ELSE c[j - 1]) + 1, c[j]))]

\* ts is a list of at most MaxTracks tracks holding at most MaxProps
\* properties in all.
BoundedTracks(ts) ==
    \E n \in 0..MaxProps, k \in 0..MaxTracks :
        \E flat \in [1..n -> Property], c \in Cuts(n, k) : ts = Split(flat, c)

\* DEFAULT_PROJECT's only group: one track, intervals [0,400] and [0,600].
DefaultTracks == <<Track(<<Prop(0, 400), Prop(0, 600)>>)>>

\* Two bursts 4900 ms apart: intervals [0,100] and [5000,5100].
GapTracks == <<Track(<<Prop(0, 100)>>), Track(<<Prop(5000, 100)>>)>>

\* Two simultaneous animations: intervals [0,1000] and [0,2000].
SimultaneousTracks == <<Track(<<Prop(0, 1000), Prop(0, 2000)>>)>>

\* A zero-length property inside a gap: [0,100], [1000,1000], [5000,5100].
MarkerTracks == <<Track(<<Prop(0, 100), Prop(1000, 0)>>), Track(<<Prop(5000, 100)>>)>>

\* A single zero-length property: [500,500].
ZeroLengthTracks == <<Track(<<Prop(500, 0)>>)>>

ScenarioTracks ==
    {DefaultTracks, GapTracks, SimultaneousTracks, MarkerTracks, ZeroLengthTracks}

\* An AnimatedProperty of the editor: its id, its timing and one of its
\* non-timing fields.  Ids are numbers: p1 is 1 and p2 is 2.
EditorProp(i, d, u, t) == [id |-> i, delay |-> d, duration |-> u, to |-> t]

\* DEFAULT_PROPERTY with the id given.
NewProp(i) == EditorProp(i, 0, 400, 1)

\* The group of DEFAULT_PROJECT; track-1 is the track id 0, below every
\* value of Date.now().
DefaultGroup ==
    [id |-> 0,
     tracks |-> <<[id |-> 0,
                   properties |-> <<EditorProp(1, 0, 400, 1),
                                    EditorProp(2, 0, 600, 0)>>]>>]

NoProp == [trackIndex |-> 0, propIndex |-> 0]

\* DEFAULT_PROJECT: the group 'group-1' (id 0), active.
DefaultProject == [groups |-> <<DefaultGroup>>, activeGroupId |-> 0]

\* An activeGroupId that is missing, null or the empty string.
NoId == -1

\* The text of an imported file.  kind is "unparsable" for a text JSON.parse
\* rejects, "null" for the text null and "object" for an object; groupsKind
\* is "absent" for a missing or falsy groups, "other" for a truthy groups
\* that is no array and "array" for an array, then held in groups.
JsonFile(kind, groupsKind, groups, activeGroupId) ==
    [kind |-> kind, groupsKind |-> groupsKind, groups |-> groups,
     activeGroupId |-> activeGroupId]

FileGroupIds == {0, 1}

FileGroups ==
    UNION {[1..n -> {[id |-> i, tracks |-> <<>>] : i \in FileGroupIds}]
           : n \in 0..MaxFileGroups}

Files ==
    {JsonFile("unparsable", "absent", <<>>, NoId), JsonFile("null", "absent", <<>>, NoId)}
    \cup {JsonFile("object", k, <<>>, a)
             : k \in {"absent", "other"}, a \in FileGroupIds \cup {2, NoId}}
    \cup {JsonFile("object", "array", gs, a)
             : gs \in FileGroups, a \in FileGroupIds \cup {2, NoId}}

----------------------------------------------------------------------------
(* Numbers *)

Abs(x) == IF x < 0 THEN -x ELSE x

Min(a, b) == IF a <= b THEN a ELSE b

RECURSIVE GCD(_, _)
GCD(a, b) == IF b = 0 THEN a ELSE GCD(b, a % b)

\* n / d as a fraction in lowest terms, den > 0; den = 0 when d = 0.
Div(n, d) ==
    IF d = 0 THEN [num |-> n, den |-> 0]
    ELSE LET g == GCD(Abs(n), Abs(d))
             s == IF d < 0 THEN -1 ELSE 1
         IN [num |-> s * (n \div g), den |-> s * (d \div g)]

Num(k) == [num |-> k, den |-> 1]

IsFinite(a) == a.den > 0

Leq(a, b) == IsFinite(a) /\ IsFinite(b) /\ a.num * b.den <= b.num * a.den

Less(a, b) == IsFinite(a) /\ IsFinite(b) /\ a.num * b.den < b.num * a.den

\* a - b
Sub(a, b) == Div(a.num * b.den - b.num * a.den, a.den * b.den)

\* a + b
Add(a, b) == Div(a.num * b.den + b.num * a.den, a.den * b.den)

\* x || d
OrElse(x, d) == IF x = 0 THEN d ELSE x

----------------------------------------------------------------------------
(* createVisualTimeScale *)

\* FlatMap reading the first track only, tracks[0].properties.
FlatMapFirstTrack(ts) == IF ts = <<>> THEN <<>> ELSE Head(ts).properties

RECURSIVE FlatMap(_)
FlatMap(ts) ==
    IF ts = <<>> THEN <<>> ELSE Head(ts).properties \o FlatMap(Tail(ts))

PropSet(allProps) == {allProps[k] : k \in DOMAIN allProps}

\* TimePoints without "timePoints.add(p.delay + p.duration)".
TimePointsStartsOnly(allProps) ==
    {0} \cup {p.delay : p \in PropSet(allProps)}

TimePoints(allProps) ==
    {0} \cup {p.delay : p \in PropSet(allProps)}
        \cup {p.delay + p.duration : p \in PropSet(allProps)}

RECURSIVE SortAscending(_)
SortAscending(S) ==
    IF S = {} THEN <<>>
    ELSE LET m == CHOOSE x \in S : \A y \in S : x <= y
         IN <<m>> \o SortAscending(S \ {m})

\* IsActive with the test "mid >= p.delay" alone.
IsActiveNoEnd(allProps, tStart, tEnd) ==
    \E p \in PropSet(allProps) : tStart + tEnd >= 2 * p.delay

\* IsActive with allProps.every for allProps.some.
IsActiveEvery(allProps, tStart, tEnd) ==
    \A p \in PropSet(allProps) :
        /\ tStart + tEnd >= 2 * p.delay
        /\ tStart + tEnd <= 2 * (p.delay + p.duration)

\* mid >= p.delay && mid <= p.delay + p.duration, with mid = (tStart + tEnd) / 2
IsActive(allProps, tStart, tEnd) ==
    \E p \in PropSet(allProps) :
        /\ tStart + tEnd >= 2 * p.delay
        /\ tStart + tEnd <= 2 * (p.delay + p.duration)

\* VisualDuration without the cap on idle segments.
VisualDurationUncompressed(allProps, tStart, tEnd) == tEnd - tStart

\* VisualDuration with the branches of the conditional exchanged.
VisualDurationSwapped(allProps, tStart, tEnd) ==
    IF IsActive(allProps, tStart, tEnd)
    THEN Min(tEnd - tStart, MAX_EMPTY_GAP_VISUAL)
    ELSE tEnd - tStart

\* VisualDuration with the cap applied to every segment.
VisualDurationCapAll(allProps, tStart, tEnd) ==
    Min(tEnd - tStart, MAX_EMPTY_GAP_VISUAL)

\* VisualDuration with Math.max for Math.min: an idle segment is never
\* narrower than the cap.
VisualDurationMax(allProps, tStart, tEnd) ==
    IF IsActive(allProps, tStart, tEnd)
    THEN tEnd - tStart
    ELSE IF tEnd - tStart > MAX_EMPTY_GAP_VISUAL THEN tEnd - tStart
         ELSE MAX_EMPTY_GAP_VISUAL

VisualDuration(allProps, tStart, tEnd) ==
    IF IsActive(allProps, tStart, tEnd)
    THEN tEnd - tStart
    ELSE Min(tEnd - tStart, MAX_EMPTY_GAP_VISUAL)

\* Walk with "currentVisual = visualDuration" for "currentVisual += visualDuration".
RECURSIVE WalkNoAccumulate(_, _, _, _, _)
WalkNoAccumulate(allProps, sp, i, currentVisual, vm) ==
    IF i > Len(sp) - 1 THEN vm
    ELSE LET cv == VisualDuration(allProps, sp[i], sp[i + 1])
         IN WalkNoAccumulate(allProps, sp, i + 1, cv,
                             Append(vm, [real |-> sp[i + 1], visual |-> cv]))

\* Walk with the loop bound sortedPoints.length - 2: the last segment is
\* never visited.
RECURSIVE WalkSkipLast(_, _, _, _, _)
WalkSkipLast(allProps, sp, i, currentVisual, vm) ==
    IF i > Len(sp) - 2 THEN vm
    ELSE LET cv == currentVisual + VisualDuration(allProps, sp[i], sp[i + 1])
         IN WalkSkipLast(allProps, sp, i + 1, cv,
                         Append(vm, [real |-> sp[i + 1], visual |-> cv]))

\* The loop over the segments, from index i (1-based) on.
RECURSIVE Walk(_, _, _, _, _)
Walk(allProps, sp, i, currentVisual, vm) ==
    IF i > Len(sp) - 1 THEN vm
    ELSE LET cv == currentVisual + VisualDuration(allProps, sp[i], sp[i + 1])
         IN Walk(allProps, sp, i + 1, cv,
                 Append(vm, [real |-> sp[i + 1], visual |-> cv]))

\* BuildVisualMap with currentVisual kept outside the function, so that a
\* build starts from the value the previous build left.
BuildVisualMapCarried(allProps, sp) ==
    Walk(allProps, sp, 1,
         IF visualMap = <<>> THEN 0 ELSE visualMap[Len(visualMap)].visual,
         <<[real |-> 0, visual |-> 0]>>)

BuildVisualMap(allProps, sp) ==
    Walk(allProps, sp, 1, 0, <<[real |-> 0, visual |-> 0]>>)

\* TotalVisual without the fallback "|| 100".
TotalVisualNoFallback(vm) == vm[Len(vm)].visual

\* TotalVisual with the fallback 100 used always.
TotalVisualFixed(vm) == 100

\* currentVisual after the loop is the visual of the entry pushed last.
TotalVisual(vm) == OrElse(vm[Len(vm)].visual, 100)

\* MaxRealDuration reading the first sorted point.
MaxRealDurationFirst(sp) == OrElse(sp[1], 0)

MaxRealDuration(sp) == OrElse(sp[Len(sp)], 0)

----------------------------------------------------------------------------
(* getPercent *)

\* FindIndex with "m.real > realTime" for "m.real >= realTime".
FindIndexStrict(vm, t) ==
    IF \E k \in DOMAIN vm : vm[k].real > t
    THEN CHOOSE k \in DOMAIN vm :
            /\ vm[k].real > t
            /\ \A j \in DOMAIN vm : vm[j].real > t => k <= j
    ELSE 0

\* visualMap.findIndex(m => m.real >= realTime), 1-based; 0 when none (-1).
FindIndex(vm, t) ==
    IF \E k \in DOMAIN vm : vm[k].real >= t
    THEN CHOOSE k \in DOMAIN vm :
            /\ vm[k].real >= t
            /\ \A j \in DOMAIN vm : vm[j].real >= t => k <= j
    ELSE 0

\* GetPercentOf with the two early returns exchanged.
GetPercentOfSwapped(vm, tvd, t) ==
    LET segmentIndex == FindIndex(vm, t) IN
    IF segmentIndex = 0 THEN Num(0)
    ELSE IF segmentIndex = 1 THEN Num(100)
    ELSE LET endPoint == vm[segmentIndex]
             startPoint == vm[segmentIndex - 1]
             segmentRealDuration == endPoint.real - startPoint.real
             segmentVisualDuration == endPoint.visual - startPoint.visual
         IN Div(100 * (startPoint.visual * segmentRealDuration
                         + (t - startPoint.real) * segmentVisualDuration),
                segmentRealDuration * tvd)

\* GetPercentOf with "visualTime = progressInSegment * segmentVisualDuration",
\* the visual of the segment's start left out.
GetPercentOfNoOffset(vm, tvd, t) ==
    LET segmentIndex == FindIndex(vm, t) IN
    IF segmentIndex = 0 THEN Num(100)
    ELSE IF segmentIndex = 1 THEN Num(0)
    ELSE LET endPoint == vm[segmentIndex]
             startPoint == vm[segmentIndex - 1]
             segmentRealDuration == endPoint.real - startPoint.real
             segmentVisualDuration == endPoint.visual - startPoint.visual
         IN Div(100 * (t - startPoint.real) * segmentVisualDuration,
                segmentRealDuration * tvd)

\* GetPercentOf without "if (segmentIndex === 0) return 0": visualMap[-1] is
\* undefined and reading its real throws; the failure is the non-number 0/0.
GetPercentOfNoFirstCheck(vm, tvd, t) ==
    LET segmentIndex == FindIndex(vm, t) IN
    IF segmentIndex = 0 THEN Num(100)
    ELSE IF segmentIndex = 1 THEN Div(0, 0)
    ELSE LET endPoint == vm[segmentIndex]
             startPoint == vm[segmentIndex - 1]
             segmentRealDuration == endPoint.real - startPoint.real
             segmentVisualDuration == endPoint.visual - startPoint.visual
         IN Div(100 * (startPoint.visual * segmentRealDuration
                         + (t - startPoint.real) * segmentVisualDuration),
                segmentRealDuration * tvd)

GetPercentOf(vm, tvd, t) ==
    LET segmentIndex == FindIndex(vm, t) IN
    IF segmentIndex = 0 THEN Num(100)
    ELSE IF segmentIndex = 1 THEN Num(0)
    ELSE LET endPoint == vm[segmentIndex]
             startPoint == vm[segmentIndex - 1]
             segmentRealDuration == endPoint.real - startPoint.real
             segmentVisualDuration == endPoint.visual - startPoint.visual
         IN \* (startPoint.visual + (t - startPoint.real) / segmentRealDuration
            \*    * segmentVisualDuration) / totalVisualDuration * 100
            Div(100 * (startPoint.visual * segmentRealDuration
                         + (t - startPoint.real) * segmentVisualDuration),
                segmentRealDuration * tvd)

\* The times getPercent is asked about: every time point, a time inside every
\* segment and one past the last point (all inputs are multiples of 10), and
\* one before the first point.
QueryTimesOf(sp) ==
    LET pts == {sp[k] : k \in DOMAIN sp}
    IN IF sp = <<>> THEN {}
       ELSE pts \cup {p + 5 : p \in pts} \cup {sp[1] - 5}

QueryTimes == QueryTimesOf(sortedPoints)

----------------------------------------------------------------------------
(* The scale handleDownloadHTML computes inline, per group *)

\* a * b
Mul(a, b) == Div(a.num * b.num, a.den * b.den)

\* a / b
Quot(a, b) == Div(a.num * b.den, a.den * b.num)

\* timePoints of the export: 0 and, for each property, delay and
\* delay + duration.
RECURSIVE ExportTimePoints(_, _)
ExportTimePoints(allProps, acc) ==
    IF allProps = <<>> THEN acc
    ELSE LET p == Head(allProps)
         IN ExportTimePoints(Tail(allProps),
                             acc \cup {p.delay} \cup {p.delay + p.duration})

\* Array.from(timePoints).sort((a, b) => a - b): the largest goes last.
RECURSIVE ExportSort(_)
ExportSort(S) ==
    IF S = {} THEN <<>>
    ELSE LET m == CHOOSE x \in S : \A y \in S : y <= x
         IN Append(ExportSort(S \ {m}), m)

\* ExportIsActive with allProps.every for allProps.some.
ExportIsActiveEvery(allProps, tStart, tEnd) ==
    \A k \in DOMAIN allProps :
        /\ tStart + tEnd >= 2 * allProps[k].delay
        /\ tStart + tEnd <= 2 * (allProps[k].delay + allProps[k].duration)

\* allProps.some(p => mid >= p.delay && mid <= p.delay + p.duration)
ExportIsActive(allProps, tStart, tEnd) ==
    \E k \in DOMAIN allProps :
        /\ tStart + tEnd >= 2 * allProps[k].delay
        /\ tStart + tEnd <= 2 * (allProps[k].delay + allProps[k].duration)

\* The for loop of the export, from index i (1-based) on; the result is
\* the visualMap, whose last visual is currentVisual.
RECURSIVE ExportLoop(_, _, _, _, _)
ExportLoop(allProps, sp, i, currentVisual, vm) ==
    IF ~(i < Len(sp)) THEN vm
    ELSE LET tStart == sp[i]
             tEnd == sp[i + 1]
             realDuration == tEnd - tStart
             visualDuration ==
                 IF ExportIsActive(allProps, tStart, tEnd) THEN realDuration
                 ELSE Min(realDuration, MAX_EMPTY_GAP_VISUAL)
         IN ExportLoop(allProps, sp, i + 1, currentVisual + visualDuration,
                       Append(vm, [real |-> tEnd,
                                   visual |-> currentVisual + visualDuration]))

\* The values the export computes for a group before it renders the bars.
ExportScale(ts) ==
    LET allProps == FlatMap(ts)
        sp == ExportSort(ExportTimePoints(allProps, {0}))
        vm == ExportLoop(allProps, sp, 1, 0, <<[real |-> 0, visual |-> 0]>>)
        currentVisual == vm[Len(vm)].visual
    IN [done |-> TRUE,
        maxRealDuration |-> IF sp[Len(sp)] = 0 THEN 0 ELSE sp[Len(sp)],
        visualMap |-> vm,
        totalVisualDuration |-> IF currentVisual = 0 THEN 100 ELSE currentVisual]

\* getPercent of the export, step by step as the code divides and
\* multiplies.
ExportGetPercent(ex, t) ==
    LET hits == {k \in DOMAIN ex.visualMap : ex.visualMap[k].real >= t} IN
    IF hits = {} THEN Num(100)
    ELSE LET segmentIndex == CHOOSE k \in hits : \A j \in hits : k <= j IN
         IF segmentIndex = 1 THEN Num(0)
         ELSE LET endPoint == ex.visualMap[segmentIndex]
                  startPoint == ex.visualMap[segmentIndex - 1]
                  segmentRealDuration == endPoint.real - startPoint.real
                  segmentVisualDuration == endPoint.visual - startPoint.visual
                  progressInSegment == Div(t - startPoint.real, segmentRealDuration)
                  visualTime == Add(Num(startPoint.visual),
                                    Mul(progressInSegment, Num(segmentVisualDuration)))
              IN Mul(Quot(visualTime, Num(ex.totalVisualDuration)), Num(100))

----------------------------------------------------------------------------
(* The state machine *)

Init ==
    /\ \/ BoundedTracks(tracks)
       \/ tracks \in ScenarioTracks
    /\ pc = "init"
    /\ sortedPoints = <<>>
    /\ visualMap = <<>>
    /\ totalVisualDuration = 0
    /\ totalDuration = 0
    /\ realTime = 0
    /\ percent = Num(0)
    /\ exported = [done |-> FALSE, maxRealDuration |-> 0, visualMap |-> <<>>,
                   totalVisualDuration |-> 0]
    /\ group = DefaultGroup
    /\ draggedTrackIndex = 0
    /\ draggedProp = NoProp
    /\ project = DefaultProject
    /\ rendered = TRUE

\* A render of HandoffSpec builds the scale from the group's tracks.
CreateVisualTimeScale ==
    LET allProps == FlatMap(tracks)
        sp == SortAscending(TimePoints(allProps))
        vm == BuildVisualMap(allProps, sp)
    IN /\ sortedPoints' = sp
       /\ visualMap' = vm
       /\ totalVisualDuration' = TotalVisual(vm)
       /\ totalDuration' = MaxRealDuration(sp)
       /\ pc' = "ready"
       /\ realTime' = 0
       /\ percent' = Num(0)
       /\ UNCHANGED <<tracks, exportVars, editorVars, projectVars>>

\* GetPercent with a scan that consumes the table: the entries passed over
\* are removed with visualMap.shift().
GetPercentShifting(t) ==
    /\ pc \in {"ready", "queried"}
    /\ realTime' = t
    /\ percent' = GetPercentOf(visualMap, totalVisualDuration, t)
    /\ pc' = "queried"
    /\ visualMap' = IF Len(visualMap) > 1 /\ visualMap[1].real < t
                    THEN Tail(visualMap) ELSE visualMap
    /\ UNCHANGED <<tracks, sortedPoints, totalVisualDuration, totalDuration, exportVars, editorVars, projectVars>>

GetPercent(t) ==
    /\ pc \in {"ready", "queried"}
    /\ realTime' = t
    /\ percent' = GetPercentOf(visualMap, totalVisualDuration, t)
    /\ pc' = "queried"
    /\ UNCHANGED <<tracks, sortedPoints, visualMap, totalVisualDuration, totalDuration,
                   exportVars, editorVars, projectVars>>

\* The HTML export computes the scale of the group inline.
HandleDownloadHTML ==
    /\ exported' = ExportScale(tracks)
    /\ UNCHANGED <<scaleVars, editorVars, projectVars>>

Next ==
    \/ CreateVisualTimeScale
    \/ \E t \in QueryTimes : GetPercent(t)

Spec == Init /\ [][Next]_vars

\* The builds alone: the renders of HandoffSpec without the getPercent calls.
SpecBuild == Init /\ [][CreateVisualTimeScale]_vars

\* The renders of HandoffSpec and the HTML exports of the same group.
NextExport ==
    \/ CreateVisualTimeScale
    \/ HandleDownloadHTML

SpecExport == Init /\ [][NextExport]_vars

----------------------------------------------------------------------------
(* The editor: PropertyControls *)

\* The values typed into the Start and End inputs.
TimeInputs == {-30, 450}

\* The values typed into the To input.
ToInputs == {1}

\* No drag is in progress; the browser delivers no click and no input
\* event during a drag.
Idle == draggedTrackIndex = 0 /\ draggedProp = NoProp

PropIds(g) ==
    UNION {{g.tracks[k].properties[j].id : j \in DOMAIN g.tracks[k].properties} :
             k \in DOMAIN g.tracks}

PropCount(g) == Len(FlatMap(g.tracks))

\* `prop-${Date.now()}-${Math.random()}`: an id no property of the group has.
FreshPropId(g) == CHOOSE n \in 1..(Cardinality(PropIds(g)) + 1) : n \notin PropIds(g)

\* seq.filter(x => x.id !== id)
RECURSIVE FilterOutId(_, _)
FilterOutId(seq, id) ==
    IF seq = <<>> THEN <<>>
    ELSE IF Head(seq).id # id THEN <<Head(seq)>> \o FilterOutId(Tail(seq), id)
         ELSE FilterOutId(Tail(seq), id)

\* { ...p, ...updates }
Merge(p, updates) ==
    [f \in DOMAIN p |-> IF f \in DOMAIN updates THEN updates[f] ELSE p[f]]

AddTrackTo(g, newId) ==
    [g EXCEPT !.tracks = Append(@, [id |-> newId, properties |-> <<>>])]

RemoveTrackFrom(g, trackId) ==
    [g EXCEPT !.tracks = FilterOutId(@, trackId)]

AddPropertyTo(g, trackId, newProp) ==
    [g EXCEPT !.tracks =
        [k \in DOMAIN @ |->
            IF @[k].id # trackId THEN @[k]
            ELSE [@[k] EXCEPT !.properties = Append(@, newProp)]]]

RemovePropertyFrom(g, trackId, propId) ==
    [g EXCEPT !.tracks =
        [k \in DOMAIN @ |->
            IF @[k].id # trackId THEN @[k]
            ELSE [@[k] EXCEPT !.properties = FilterOutId(@, propId)]]]

UpdatePropertyIn(g, trackId, propId, updates) ==
    [g EXCEPT !.tracks =
        [k \in DOMAIN @ |->
            IF @[k].id # trackId THEN @[k]
            ELSE [@[k] EXCEPT !.properties =
                    [j \in DOMAIN @ |->
                        IF @[j].id = propId THEN Merge(@[j], updates) ELSE @[j]]]]]

Max(a, b) == IF a >= b THEN a ELSE b

\* MoveItem that exchanges the items at from and to.
MoveItemSwap(seq, from, to) ==
    [k \in DOMAIN seq |->
        IF k = from THEN seq[to] ELSE IF k = to THEN seq[from] ELSE seq[k]]

\* seq with the item at index from removed and inserted again at index to,
\* as splice(from, 1) followed by splice(to, 0, item) does in a drag-reorder.
MoveItem(seq, from, to) ==
    LET item == seq[from]
        rest == SubSeq(seq, 1, from - 1) \o SubSeq(seq, from + 1, Len(seq))
    IN SubSeq(rest, 1, to - 1) \o <<item>> \o SubSeq(rest, to, Len(rest))

\* The updates handleTimeChange passes on, with "newDelay = value" for
\* "newDelay = Math.max(0, value)".
TimeUpdatesUnclamped(field, value, currentProp) ==
    LET start == currentProp.delay
        end == currentProp.delay + currentProp.duration
    IN IF field = "start"
       THEN [delay |-> value,
             duration |-> IF value >= end THEN 100 ELSE end - value]
       ELSE [delay |-> start,
             duration |-> Max(start + 10, value) - start]

\* The updates handleTimeChange passes to updateProperty.
TimeUpdates(field, value, currentProp) ==
    LET start == currentProp.delay
        end == currentProp.delay + currentProp.duration
        newDelay == Max(0, value)
    IN IF field = "start"
       THEN [delay |-> newDelay,
             duration |-> IF newDelay >= end THEN 100 ELSE end - newDelay]
       ELSE [delay |-> start,
             duration |-> Max(start + 10, value) - start]

\* The group handleTimeChange hands to onChange when the input of the row
\* (ti, pi) changes.
HandleTimeChangeOf(g, ti, pi, field, value) ==
    LET track == g.tracks[ti]
        prop == track.properties[pi]
    IN UpdatePropertyIn(g, track.id, prop.id, TimeUpdates(field, value, prop))

\* The values `track-${Date.now()}` can take, up to the names of the ids:
\* a value no track of the group has, or the value of a track of the group,
\* when the call falls into the same millisecond or the wall clock was set
\* back.  The id 0 of track-1 is no value of Date.now().
DateNowIds(g) ==
    LET ids == {g.tracks[k].id : k \in DOMAIN g.tracks} \ {0}
    IN ids \cup {CHOOSE n \in 1..(Cardinality(ids) + 1) : n \notin ids}

\* addTrack while the group has fewer than n tracks.
AddTrackUpTo(n) ==
    /\ Idle
    /\ Len(group.tracks) < n
    /\ \E t \in DateNowIds(group) : group' = AddTrackTo(group, t)
    /\ UNCHANGED <<draggedTrackIndex, draggedProp, scaleVars, exportVars, projectVars>>

AddTrack ==
    /\ Idle
    /\ Len(group.tracks) < MaxEditorTracks
    /\ \E t \in DateNowIds(group) : group' = AddTrackTo(group, t)
    /\ UNCHANGED <<draggedTrackIndex, draggedProp, scaleVars, exportVars, projectVars>>

RemoveTrack(ti) ==
    /\ Idle
    /\ group' = RemoveTrackFrom(group, group.tracks[ti].id)
    /\ UNCHANGED <<draggedTrackIndex, draggedProp, scaleVars, exportVars, projectVars>>

\* addProperty while the group keeps at most n properties.
AddPropertyUpTo(ti, n) ==
    LET g == AddPropertyTo(group, group.tracks[ti].id, NewProp(FreshPropId(group)))
    IN /\ Idle
       /\ PropCount(g) <= n
       /\ group' = g
       /\ UNCHANGED <<draggedTrackIndex, draggedProp, scaleVars, exportVars, projectVars>>

AddProperty(ti) ==
    LET g == AddPropertyTo(group, group.tracks[ti].id, NewProp(FreshPropId(group)))
    IN /\ Idle
       /\ PropCount(g) <= MaxGroupProps
       /\ group' = g
       /\ UNCHANGED <<draggedTrackIndex, draggedProp, scaleVars, exportVars, projectVars>>

RemoveProperty(ti, pi) ==
    /\ Idle
    /\ group' = RemovePropertyFrom(group, group.tracks[ti].id,
                                   group.tracks[ti].properties[pi].id)
    /\ UNCHANGED <<draggedTrackIndex, draggedProp, scaleVars, exportVars, projectVars>>

\* An input of a non-timing field: from, to, note, customName, assetName.
UpdateProperty(ti, pi, v) ==
    /\ Idle
    /\ group' = UpdatePropertyIn(group, group.tracks[ti].id,
                                 group.tracks[ti].properties[pi].id, [to |-> v])
    /\ UNCHANGED <<draggedTrackIndex, draggedProp, scaleVars, exportVars, projectVars>>

HandleTimeChange(ti, pi, field, value) ==
    /\ Idle
    /\ group' = HandleTimeChangeOf(group, ti, pi, field, value)
    /\ UNCHANGED <<draggedTrackIndex, draggedProp, scaleVars, exportVars, projectVars>>

HandleTrackDragStart(index) ==
    /\ Idle
    /\ draggedTrackIndex' = index
    /\ UNCHANGED <<group, draggedProp, scaleVars, exportVars, projectVars>>

HandleTrackDragOver(index) ==
    IF draggedTrackIndex = 0 \/ draggedTrackIndex = index
    THEN UNCHANGED vars
    ELSE /\ group' = [group EXCEPT !.tracks = MoveItem(@, draggedTrackIndex, index)]
         /\ draggedTrackIndex' = index
         /\ UNCHANGED <<draggedProp, scaleVars, exportVars, projectVars>>

HandleTrackDragEnd ==
    /\ draggedTrackIndex # 0
    /\ draggedTrackIndex' = 0
    /\ UNCHANGED <<group, draggedProp, scaleVars, exportVars, projectVars>>

HandlePropDragStart(trackIndex, propIndex) ==
    /\ Idle
    /\ draggedProp' = [trackIndex |-> trackIndex, propIndex |-> propIndex]
    /\ UNCHANGED <<group, draggedTrackIndex, scaleVars, exportVars, projectVars>>

\* handlePropDragOver without the test that the hovered row is in the track
\* of the dragged property.
HandlePropDragOverAnyTrack(trackIndex, propIndex) ==
    IF draggedProp = NoProp THEN UNCHANGED vars
    ELSE IF \/ draggedProp.propIndex = propIndex
            \/ draggedProp.propIndex > Len(group.tracks[trackIndex].properties)
    THEN UNCHANGED vars
    ELSE /\ group' = [group EXCEPT !.tracks[trackIndex].properties =
                                      MoveItem(@, draggedProp.propIndex, propIndex)]
         /\ draggedProp' = [trackIndex |-> trackIndex, propIndex |-> propIndex]
         /\ UNCHANGED <<draggedTrackIndex, scaleVars, exportVars, projectVars>>

HandlePropDragOver(trackIndex, propIndex) ==
    IF draggedProp = NoProp
    THEN UNCHANGED vars
    ELSE IF draggedProp.trackIndex # trackIndex \/ draggedProp.propIndex = propIndex
    THEN UNCHANGED vars
    ELSE /\ group' = [group EXCEPT !.tracks[trackIndex].properties =
                          MoveItem(@, draggedProp.propIndex, propIndex)]
         /\ draggedProp' = [trackIndex |-> trackIndex, propIndex |-> propIndex]
         /\ UNCHANGED <<draggedTrackIndex, scaleVars, exportVars, projectVars>>

\* The dragend of a property bubbles to the track's onDragEnd.
HandlePropDragEnd ==
    /\ draggedProp # NoProp
    /\ draggedProp' = NoProp
    /\ draggedTrackIndex' = 0
    /\ UNCHANGED <<group, scaleVars, exportVars, projectVars>>

\* The rows (track index, property index) the editor renders.
Rows ==
    UNION {{<<ti, pi>> : pi \in DOMAIN group.tracks[ti].properties} :
             ti \in DOMAIN group.tracks}

NextEditor ==
    \/ AddTrack
    \/ \E ti \in DOMAIN group.tracks : RemoveTrack(ti)
    \/ \E ti \in DOMAIN group.tracks : AddProperty(ti)
    \/ \E r \in Rows : RemoveProperty(r[1], r[2])
    \/ \E r \in Rows : \E v \in ToInputs : UpdateProperty(r[1], r[2], v)
    \/ \E r \in Rows : \E field \in {"start", "end"} : \E value \in TimeInputs :
          HandleTimeChange(r[1], r[2], field, value)
    \/ \E index \in DOMAIN group.tracks : HandleTrackDragStart(index)
    \/ \E index \in DOMAIN group.tracks : HandleTrackDragOver(index)
    \/ HandleTrackDragEnd
    \/ \E r \in Rows : HandlePropDragStart(r[1], r[2])
    \/ \E r \in Rows : HandlePropDragOver(r[1], r[2])
    \/ HandlePropDragEnd

\* The editor on the group of DEFAULT_PROJECT.
InitEditor == Init /\ tracks = DefaultTracks

SpecEditor == InitEditor /\ [][NextEditor]_vars

\* The edits that keep every track and the drags: removeTrack left out,
\* properties added while fewer than MaxTimingProps remain.
NextTiming ==
    \/ AddTrackUpTo(MaxTimingTracks)
    \/ \E ti \in DOMAIN group.tracks : AddPropertyUpTo(ti, MaxTimingProps)
    \/ \E r \in Rows : RemoveProperty(r[1], r[2])
    \/ \E r \in Rows : \E v \in ToInputs : UpdateProperty(r[1], r[2], v)
    \/ \E r \in Rows : \E field \in {"start", "end"} : \E value \in TimeInputs :
          HandleTimeChange(r[1], r[2], field, value)
    \/ \E index \in DOMAIN group.tracks : HandleTrackDragStart(index)
    \/ \E index \in DOMAIN group.tracks : HandleTrackDragOver(index)
    \/ HandleTrackDragEnd
    \/ \E r \in Rows : HandlePropDragStart(r[1], r[2])
    \/ \E r \in Rows : HandlePropDragOver(r[1], r[2])
    \/ HandlePropDragEnd

SpecTiming == InitEditor /\ [][NextTiming]_vars

\* The drags, with the edits that add tracks and properties.
NextDrag ==
    \/ AddTrackUpTo(MaxDragTracks)
    \/ \E ti \in DOMAIN group.tracks : AddPropertyUpTo(ti, MaxDragProps)
    \/ \E index \in DOMAIN group.tracks : HandleTrackDragStart(index)
    \/ \E index \in DOMAIN group.tracks : HandleTrackDragOver(index)
    \/ HandleTrackDragEnd
    \/ \E r \in Rows : HandlePropDragStart(r[1], r[2])
    \/ \E r \in Rows : HandlePropDragOver(r[1], r[2])
    \/ HandlePropDragEnd

SpecDrag == InitEditor /\ [][NextDrag]_vars

----------------------------------------------------------------------------
(* The project: App *)

GroupIds(p) == {p.groups[k].id : k \in DOMAIN p.groups}

\* project.groups.find(g => g.id === project.activeGroupId) || project.groups[0]
ActiveGroup(p) ==
    IF p.activeGroupId \in GroupIds(p)
    THEN p.groups[CHOOSE k \in DOMAIN p.groups :
                    /\ p.groups[k].id = p.activeGroupId
                    /\ \A j \in 1..(k - 1) : p.groups[j].id # p.activeGroupId]
    ELSE p.groups[1]

\* prev.groups.map(g => g.id === newGroup.id ? newGroup : g)
UpdateActiveGroupIn(p, newGroup) ==
    [p EXCEPT !.groups =
        [k \in DOMAIN @ |-> IF @[k].id = newGroup.id THEN newGroup ELSE @[k]]]

\* `group-${Date.now()}`: the id of a group of the project that an earlier
\* addGroup or a file named, or one no group has.  Only equality of ids is
\* observable, so the unused ids are represented by the smallest one.
GroupDateNowIds(p) ==
    LET ids == GroupIds(p) \ {0}
    IN ids \cup {CHOOSE n \in 1..(Cardinality(ids) + 1) : n \notin ids}

\* The groups TimelineEditor and PropertyControls hand to onChange: the
\* active group with a track added or removed.  Without a group there is no
\* editor.
NewGroups(p) ==
    IF p.groups = <<>> THEN {}
    ELSE LET g == ActiveGroup(p)
         IN {RemoveTrackFrom(g, g.tracks[k].id) : k \in DOMAIN g.tracks}
            \cup (IF Len(g.tracks) < MaxGroupTracks
                  THEN {AddTrackTo(g, t) : t \in DateNowIds(g)}
                  ELSE {})

UpdateActiveGroup(newGroup) ==
    /\ rendered
    /\ project' = UpdateActiveGroupIn(project, newGroup)
    /\ UNCHANGED <<rendered, scaleVars, exportVars, editorVars>>

AddGroup ==
    /\ rendered
    /\ Len(project.groups) < MaxGroups
    /\ \E newId \in GroupDateNowIds(project) :
          project' = [groups |-> Append(project.groups, [id |-> newId, tracks |-> <<>>]),
                      activeGroupId |-> newId]
    /\ UNCHANGED <<rendered, scaleVars, exportVars, editorVars>>

\* newGroups[0].id of an empty newGroups throws before setProject is called.
DeleteGroup(id) ==
    /\ rendered
    /\ IF Len(project.groups) <= 1 THEN UNCHANGED vars
       ELSE LET newGroups == FilterOutId(project.groups, id)
            IN IF newGroups = <<>> THEN UNCHANGED vars
               ELSE /\ project' = [groups |-> newGroups,
                                   activeGroupId |-> newGroups[1].id]
                    /\ UNCHANGED <<rendered, scaleVars, exportVars, editorVars>>

\* The click on the row of a group in the sidebar.
SelectGroup(k) ==
    /\ rendered
    /\ project' = [project EXCEPT !.activeGroupId = project.groups[k].id]
    /\ UNCHANGED <<rendered, scaleVars, exportVars, editorVars>>

\* json.groups && Array.isArray(json.groups) && json.activeGroupId
PassesImportCheck(file) ==
    /\ file.kind = "object"
    /\ file.groupsKind = "array"
    /\ file.activeGroupId # NoId

\* reader.onload of handleFileImport.  JSON.parse of an unparsable text and
\* json.groups of null throw inside the try block, before any setProject.
\* For an accepted file setProject(json) is queued; for an empty groups array
\* the queued updater then reads json.groups[0].id of undefined and the
\* render of App throws.
HandleFileImport(file) ==
    /\ rendered
    /\ IF file.kind = "unparsable" \/ file.kind = "null" THEN UNCHANGED vars
       ELSE IF ~PassesImportCheck(file) THEN UNCHANGED vars
       ELSE IF \E k \in DOMAIN file.groups : file.groups[k].id = file.activeGroupId
       THEN /\ project' = [groups |-> file.groups, activeGroupId |-> file.activeGroupId]
            /\ UNCHANGED <<rendered, scaleVars, exportVars, editorVars>>
       ELSE IF file.groups = <<>>
       THEN /\ project' = [groups |-> file.groups, activeGroupId |-> file.activeGroupId]
            /\ rendered' = FALSE
            /\ UNCHANGED <<scaleVars, exportVars, editorVars>>
       ELSE /\ project' = [groups |-> file.groups, activeGroupId |-> file.groups[1].id]
            /\ UNCHANGED <<rendered, scaleVars, exportVars, editorVars>>

NextApp ==
    \/ \E newGroup \in NewGroups(project) : UpdateActiveGroup(newGroup)
    \/ AddGroup
    \/ \E id \in GroupIds(project) : DeleteGroup(id)
    \/ \E k \in DOMAIN project.groups : SelectGroup(k)
    \/ \E file \in Files : HandleFileImport(file)

SpecApp == InitEditor /\ [][NextApp]_vars

----------------------------------------------------------------------------
(* Properties of the scale *)

AllProps == FlatMap(tracks)

Built == pc \in {"ready", "queried"}

\* getPercent of the scale built last.
PercentAt(t) == GetPercentOf(visualMap, totalVisualDuration, t)

\* Every property has 0 <= start <= end.
WellFormed == \A p \in PropSet(AllProps) : p.delay >= 0 /\ p.duration >= 0

\* The segments of the last build, by the index of their first time point.
Segments == 1..(Len(sortedPoints) - 1)

\* Visual units the segment k added to the accumulated visual length.
Contribution(k) == visualMap[k + 1].visual - visualMap[k].visual

\* C1: getPercent is non-decreasing: for all real times t1 <= t2 of any set
\* of tracks, getPercent(t1) <= getPercent(t2); t below 0, on a time point
\* and past the last time point included.
C1_Monotone ==
    pc = "queried" =>
        \A t1 \in QueryTimes : t1 <= realTime => Leq(PercentAt(t1), percent)

\* C1 witness: two times inside the scale with strictly increasing percentages,
\* on a scale that also has a time point below 0.
C1_Witness ==
    /\ pc = "queried"
    /\ sortedPoints[1] < 0
    /\ \E t1 \in QueryTimes :
          t1 < realTime /\ Less(Num(0), PercentAt(t1)) /\ Less(PercentAt(t1), percent)

\* C2 as stated: for every non-empty set of properties, zero-length ones at
\* time 0 included, getPercent(totalDuration) = 100 (taken over the sets
\* whose properties all have 0 <= start <= end).
C2_Original ==
    (pc = "queried" /\ AllProps # <<>> /\ WellFormed /\ realTime = totalDuration)
        => percent = Num(100)

\* C2 amended: for every non-empty set of properties whose totalDuration is
\* above 0, getPercent(totalDuration) = 100; when totalDuration is 0 (for
\* instance only zero-length properties at time 0), getPercent(totalDuration)
\* is 0.
C2_TotalIsHundred ==
    (pc = "queried" /\ AllProps # <<>> /\ realTime = totalDuration)
        => percent = (IF totalDuration > 0 THEN Num(100) ELSE Num(0))

\* C2 witness: getPercent(totalDuration) asked on a scale with an idle gap
\* and totalDuration above 0.
C2_Witness ==
    /\ pc = "queried"
    /\ AllProps # <<>>
    /\ totalDuration > 0
    /\ realTime = totalDuration
    /\ totalVisualDuration < totalDuration

C4_ZeroIsZero ==
    (pc = "queried" /\ realTime = 0) => percent = Num(0)

\* C4 witness: getPercent(0) asked on a scale with a time point below 0 and
\* one above.
C4_Witness ==
    /\ pc = "queried"
    /\ realTime = 0
    /\ sortedPoints[1] < 0
    /\ totalDuration > 0

\* C5: getPercent(t) lies in [0, 100] for every set of tracks and every t.
C5_Range ==
    pc = "queried" => (Leq(Num(0), percent) /\ Leq(percent, Num(100)))

\* C5 witness: a result strictly between 0 and 100 at a time inside a
\* compressed idle segment.
C5_Witness ==
    /\ pc = "queried"
    /\ Less(Num(0), percent)
    /\ Less(percent, Num(100))
    /\ \E k \in 1..(Len(sortedPoints) - 1) :
          /\ sortedPoints[k] < realTime
          /\ realTime < sortedPoints[k + 1]
          /\ ~IsActive(AllProps, sortedPoints[k], sortedPoints[k + 1])
          /\ sortedPoints[k + 1] - sortedPoints[k] > MAX_EMPTY_GAP_VISUAL

\* Some property covers the midpoint of [a, b].
CoversMid(p, a, b) == 2 * p.delay <= a + b /\ a + b <= 2 * (p.delay + p.duration)

\* C6: every idle segment (adjacent time points whose midpoint no interval
\* covers) adds min(realDuration, 60) visual units; for [0,100] and
\* [5000,5100] the gap segment [100,5000] gets 60 units of 260 in all.
C6_IdleSegment ==
    Built =>
        /\ \A k \in Segments :
              (\A p \in PropSet(AllProps) : ~CoversMid(p, sortedPoints[k], sortedPoints[k + 1]))
                  => Contribution(k) = Min(sortedPoints[k + 1] - sortedPoints[k], 60)
        /\ tracks = GapTracks =>
              /\ sortedPoints = <<0, 100, 5000, 5100>>
              /\ Contribution(2) = 60
              /\ totalVisualDuration = 260

\* C6 witness: the scale of [0,100] and [5000,5100] is built.
C6_Witness == Built /\ tracks = GapTracks

\* No property of positive duration is active in any segment from time point
\* i to time point j.
IdleStretch(i, j) ==
    /\ i < j
    /\ \A k \in i..(j - 1) : \A p \in PropSet(AllProps) :
          p.duration > 0 => ~CoversMid(p, sortedPoints[k], sortedPoints[k + 1])

\* The time point j is the start of an interval of positive duration.
StartOfActivity(j) ==
    \E p \in PropSet(AllProps) : p.duration > 0 /\ p.delay = sortedPoints[j]

\* C7 as stated: every stretch of real time, from 0 or the end of activity up
\* to the next start of activity, in which no interval of positive duration
\* is active takes at most 60 visual units, also when zero-length intervals
\* lie inside it (taken over the sets whose properties all have
\* 0 <= start <= end).
C7_Original ==
    (Built /\ WellFormed) =>
        \A i, j \in DOMAIN sortedPoints :
            (IdleStretch(i, j) /\ StartOfActivity(j))
                => visualMap[j].visual - visualMap[i].visual <= 60

\* C7 amended: every idle segment between adjacent time points takes at most
\* 60 visual units, so a stretch in which no interval of positive duration is
\* active takes at most 60 units when no time point lies strictly inside it,
\* and at most 60 units for each of its segments when zero-length intervals
\* (or intervals with end < start) put time points inside it.
C7_IdleStretch ==
    Built =>
        \A i, j \in DOMAIN sortedPoints :
            IdleStretch(i, j)
                => visualMap[j].visual - visualMap[i].visual <= 60 * (j - i)

\* C7 witness: a stretch without activity that is split by a zero-length
\* property and takes more than 60 visual units.
C7_Witness ==
    /\ Built
    /\ WellFormed
    /\ \E i, j \in DOMAIN sortedPoints :
          /\ IdleStretch(i, j)
          /\ j > i + 1
          /\ visualMap[j].visual - visualMap[i].visual > 60
          /\ StartOfActivity(j)

\* C8: every segment lying inside some interval is classified active and adds
\* its full real duration; for [0,1000] and [0,2000] both segments are active,
\* the total visual length is 2000 and getPercent(1000) = 50.
C8_ActiveSegment ==
    Built =>
        /\ \A k \in Segments :
              (\E p \in PropSet(AllProps) :
                    /\ p.delay <= sortedPoints[k]
                    /\ sortedPoints[k + 1] <= p.delay + p.duration)
                  => /\ IsActive(AllProps, sortedPoints[k], sortedPoints[k + 1])
                     /\ Contribution(k) = sortedPoints[k + 1] - sortedPoints[k]
        /\ tracks = SimultaneousTracks =>
              /\ sortedPoints = <<0, 1000, 2000>>
              /\ IsActive(AllProps, 0, 1000)
              /\ IsActive(AllProps, 1000, 2000)
              /\ Contribution(1) = 1000
              /\ Contribution(2) = 1000
              /\ totalVisualDuration = 2000
              /\ (pc = "queried" /\ realTime = 1000) => percent = Num(50)

\* C8 witness: getPercent(1000) asked on the scale of [0,1000] and [0,2000].
C8_Witness == pc = "queried" /\ tracks = SimultaneousTracks /\ realTime = 1000

\* (e - s) / totalVisualDuration * 100
ScaledWidth(p) == Div(100 * p.duration, totalVisualDuration)

BarWidth(p) == Sub(PercentAt(p.delay + p.duration), PercentAt(p.delay))

\* C9 as stated: for every interval [s,e] of the input with 0 <= s <= e,
\* getPercent(e) - getPercent(s) = (e - s) / totalVisualDuration * 100 (taken
\* over the inputs whose intervals all have start <= end).
C9_Original ==
    (Built /\ \A q \in PropSet(AllProps) : q.duration >= 0) =>
        \A p \in PropSet(AllProps) :
            (p.delay >= 0 /\ p.duration >= 0) => BarWidth(p) = ScaledWidth(p)

\* C9 amended: when no interval of the input starts or ends below 0, then for
\* every interval [s,e] of the input with s <= e,
\* getPercent(e) - getPercent(s) = (e - s) / totalVisualDuration * 100, so all
\* intervals are drawn with one scale factor and an interval of positive
\* duration has a strictly positive width.
C9_Proportional ==
    (Built /\ sortedPoints[1] >= 0) =>
        \A p \in PropSet(AllProps) :
            p.duration >= 0 =>
                /\ BarWidth(p) = ScaledWidth(p)
                /\ p.duration > 0 => Less(Num(0), BarWidth(p))

\* C9 witness: two intervals of different positive durations, one of them
\* after an idle gap longer than 60 ms, on a scale without negative times.
C9_Witness ==
    /\ Built
    /\ sortedPoints[1] >= 0
    /\ totalVisualDuration < totalDuration
    /\ \E p, q \in PropSet(AllProps) :
          /\ 0 < p.duration
          /\ p.duration < q.duration
          /\ p.delay # q.delay

\* C10: for one track with [0,400] and [0,600] the time points are 0, 400,
\* 600, both segments are active, the total visual length is 600,
\* totalDuration = 600, getPercent(400) = 400/600*100 and getPercent(600) = 100.
C10_DefaultProject ==
    (Built /\ tracks = DefaultTracks) =>
        /\ sortedPoints = <<0, 400, 600>>
        /\ \A k \in Segments :
              \E p \in PropSet(AllProps) : CoversMid(p, sortedPoints[k], sortedPoints[k + 1])
        /\ Contribution(1) = 400
        /\ Contribution(2) = 200
        /\ totalVisualDuration = 600
        /\ totalDuration = 600
        /\ (pc = "queried" /\ realTime = 400) => percent = Div(400 * 100, 600)
        /\ (pc = "queried" /\ realTime = 600) => percent = Num(100)

\* C10 witness: getPercent(400) asked on the scale of DEFAULT_PROJECT's group.
C10_Witness == pc = "queried" /\ tracks = DefaultTracks /\ realTime = 400

C12_NoDivisionByZero ==
    /\ Built => totalVisualDuration # 0
    /\ pc = "queried" =>
          LET segmentIndex == FindIndex(visualMap, realTime)
          IN segmentIndex > 1 =>
                visualMap[segmentIndex].real > visualMap[segmentIndex - 1].real
    /\ (pc = "queried" /\ tracks = ZeroLengthTracks /\ realTime = 500)
          => IsFinite(percent)

\* C12 witness: getPercent(500) asked on the scale of the single interval
\* [500,500].
C12_Witness == pc = "queried" /\ tracks = ZeroLengthTracks /\ realTime = 500

\* C13: createVisualTimeScale and getPercent are total: for empty input,
\* zero-length intervals, negative delays and negative durations the build
\* returns a number as totalDuration and a table with a first entry, every
\* entry getPercent reads exists, and getPercent(t) is a finite number at
\* every t.
C13_Total ==
    /\ Built =>
          /\ totalDuration \in Int
          /\ Len(visualMap) >= 1
          /\ Len(sortedPoints) >= 1
    /\ pc = "queried" =>
          LET segmentIndex == FindIndex(visualMap, realTime)
          IN /\ segmentIndex > 1 => (segmentIndex - 1) \in DOMAIN visualMap
             /\ IsFinite(percent)
             /\ percent.num \in Int

\* C13 witness: getPercent interpolates on the scale of an input with a
\* negative delay and a negative duration.
C13_Witness ==
    /\ pc = "queried"
    /\ \E p \in PropSet(AllProps) : p.delay < 0
    /\ \E p \in PropSet(AllProps) : p.duration < 0
    /\ FindIndex(visualMap, realTime) > 1

\* C14: for every interval set, getPercent(t) = 100 for every t above the
\* largest time point and getPercent(t) = 0 for every t <= 0.
C14_Clamp ==
    pc = "queried" =>
        /\ (/\ realTime > 0
            /\ \A p \in PropSet(AllProps) :
                  realTime > p.delay /\ realTime > p.delay + p.duration)
              => percent = Num(100)
        /\ realTime <= 0 => percent = Num(0)

\* C14 witness: getPercent asked past the last time point of a scale that
\* also has a time point below 0.
C14_Witness ==
    /\ pc = "queried"
    /\ sortedPoints[1] < 0
    /\ totalDuration > 0
    /\ realTime > totalDuration

\* Every delay and every delay + duration of the tracks, and 0.
Boundaries ==
    {0} \cup UNION {{p.delay, p.delay + p.duration} : p \in PropSet(AllProps)}

\* C15: totalDuration is the maximum of 0 and every interval start (delay)
\* and end (delay + duration) across all tracks.
C15_TotalDuration ==
    Built =>
        /\ totalDuration \in Boundaries
        /\ \A x \in Boundaries : x <= totalDuration

\* C15 witness: a build whose largest boundary is the end of a property that
\* does not start last.
C15_Witness ==
    /\ Built
    /\ \E p, q \in PropSet(AllProps) :
          /\ p.delay < q.delay
          /\ p.delay + p.duration > q.delay + q.duration
          /\ totalDuration = p.delay + p.duration

\* The table in the state is the table a fresh build of the tracks yields.
TableIsFresh ==
    LET sp == SortAscending(TimePoints(AllProps))
        vm == BuildVisualMap(AllProps, sp)
    IN /\ sortedPoints = sp
       /\ visualMap = vm
       /\ totalVisualDuration = TotalVisual(vm)
       /\ totalDuration = MaxRealDuration(sp)

\* C16: no build and no getPercent call changes the tracks, and a getPercent
\* call leaves the table of the finished build as it was, so the table is
\* always the one of a fresh build and getPercent(t) returns what it returns
\* on a fresh build whatever calls came before.
C16_Frame ==
    /\ [](Built => TableIsFresh)
    /\ [][/\ tracks' = tracks
          /\ (Built /\ pc' = "queried") =>
                /\ visualMap' = visualMap
                /\ sortedPoints' = sortedPoints
                /\ totalVisualDuration' = totalVisualDuration
                /\ totalDuration' = totalDuration
                /\ percent' = PercentAt(realTime')]_vars

\* C16 witness: getPercent has returned an interpolated value on a table of
\* at least three entries.
C16_Witness ==
    /\ pc = "queried"
    /\ Len(visualMap) >= 3
    /\ FindIndex(visualMap, realTime) = 2
    /\ Less(Num(0), percent)

\* C17: for intervals with 0 <= start <= end the table starts at (real 0,
\* visual 0), has exactly one entry per distinct time point, strictly
\* increasing reals and non-decreasing visuals, and every visual lies in
\* [0, totalVisualDuration].
C17_Table ==
    (Built /\ WellFormed) =>
        /\ visualMap[1] = [real |-> 0, visual |-> 0]
        /\ Len(visualMap) = Cardinality(Boundaries)
        /\ {visualMap[k].real : k \in DOMAIN visualMap} = Boundaries
        /\ \A k \in DOMAIN visualMap :
              /\ k > 1 => visualMap[k - 1].real < visualMap[k].real
              /\ k > 1 => visualMap[k - 1].visual <= visualMap[k].visual
              /\ 0 <= visualMap[k].visual
              /\ visualMap[k].visual <= totalVisualDuration

\* C17 witness: a table of four entries over well-formed intervals with a
\* compressed idle segment.
C17_Witness ==
    /\ Built
    /\ WellFormed
    /\ Len(visualMap) >= 4
    /\ totalVisualDuration < totalDuration

\* The table entry k is the lowest-index entry whose real is at least t.
LowestEntryAtOrAfter(k, t) ==
    /\ visualMap[k].real >= t
    /\ \A j \in 1..(k - 1) : visualMap[j].real < t

\* The fraction a equals (prev.visual + (t - prev.real) / (entry.real -
\* prev.real) * (entry.visual - prev.visual)) / totalVisualDuration * 100 for
\* the entry k and the entry before it.
IsInterpolation(a, k, t) ==
    LET entry == visualMap[k]
        prev == visualMap[k - 1]
    IN a = Div(100 * (prev.visual * (entry.real - prev.real)
                        + (t - prev.real) * (entry.visual - prev.visual)),
               (entry.real - prev.real) * totalVisualDuration)

\* visual_i / totalVisualDuration * 100
EntryPercent(i) == Div(100 * visualMap[i].visual, totalVisualDuration)

\* C18 as stated: at every time point p_i getPercent returns
\* visual_i / totalVisualDuration * 100 (taken over the inputs whose intervals
\* all have start <= end).
C18_Original ==
    (pc = "queried" /\ \A q \in PropSet(AllProps) : q.duration >= 0) =>
        \A i \in DOMAIN sortedPoints :
            realTime = sortedPoints[i] => percent = EntryPercent(i)

\* C18 amended: for t strictly between 0 and the largest time point,
\* getPercent(t) takes the lowest-index entry whose real >= t and returns the
\* interpolation between the entry before it and that entry; at every time
\* point p_i > 0 it returns visual_i / totalVisualDuration * 100; at a time
\* point p_i <= 0 it returns 0, which is visual_i / totalVisualDuration * 100
\* when no time point lies below 0.
C18_Lookup ==
    pc = "queried" =>
        /\ (0 < realTime /\ realTime < totalDuration) =>
              \E k \in 2..Len(visualMap) :
                  LowestEntryAtOrAfter(k, realTime) /\ IsInterpolation(percent, k, realTime)
        /\ \A i \in DOMAIN sortedPoints :
              realTime = sortedPoints[i] =>
                  /\ realTime > 0 => percent = EntryPercent(i)
                  /\ realTime <= 0 => percent = Num(0)
                  /\ sortedPoints[1] >= 0 => percent = EntryPercent(i)

\* C18 witness: getPercent interpolates strictly inside a compressed idle
\* segment that is not the first segment.
C18_Witness ==
    /\ pc = "queried"
    /\ 0 < realTime
    /\ realTime < totalDuration
    /\ \E k \in 3..Len(visualMap) :
          /\ LowestEntryAtOrAfter(k, realTime)
          /\ visualMap[k].real > realTime
          /\ visualMap[k].visual - visualMap[k - 1].visual
                < visualMap[k].real - visualMap[k - 1].real

\* The track lists that hold the properties of ts in another order or in
\* another distribution over tracks: one track moved, one property moved
\* inside its track, all properties in one track, one track per property.
Rearranged(ts) ==
    {MoveItem(ts, i, j) : i \in DOMAIN ts, j \in DOMAIN ts}
    \cup UNION {{[ts EXCEPT ![k] = Track(MoveItem(ts[k].properties, i, j))] :
                    i \in DOMAIN ts[k].properties, j \in DOMAIN ts[k].properties} :
                 k \in DOMAIN ts}
    \cup {<<Track(FlatMap(ts))>>}
    \cup {[k \in DOMAIN FlatMap(ts) |-> Track(<<FlatMap(ts)[k]>>)]}

\* C19: the mapping does not depend on the order of the tracks, on the order
\* of the properties inside a track or on how the properties are spread over
\* tracks: a build from rearranged tracks yields the same totalDuration and
\* a getPercent that agrees at every t.
C19_OrderIndependent ==
    Built =>
        \A ts \in Rearranged(tracks) :
            LET allProps == FlatMap(ts)
                sp == SortAscending(TimePoints(allProps))
                vm == BuildVisualMap(allProps, sp)
            IN /\ MaxRealDuration(sp) = totalDuration
               /\ \A t \in QueryTimes :
                     GetPercentOf(vm, TotalVisual(vm), t) = PercentAt(t)

\* C19 witness: a build from two tracks with different intervals, one of
\* them holding two properties, so that tracks and properties can be moved.
C19_Witness ==
    /\ Built
    /\ Len(tracks) = 2
    /\ Len(tracks[1].properties) = 2
    /\ tracks[1].properties[1] # tracks[1].properties[2]
    /\ tracks[1].properties # tracks[2].properties
    /\ MoveItem(tracks, 1, 2) # tracks

\* Iterations of the segment walk of the last build: every iteration pushes
\* one entry behind the initial one.
WalkIterations == Len(visualMap) - 1

\* C20: a build has one table entry per distinct time point, at most
\* 2 * (number of properties) + 1 of them, and the segment walk finishes
\* after exactly (number of time points - 1) iterations.
C20_Bounded ==
    Built =>
        /\ Len(sortedPoints) = Cardinality(Boundaries)
        /\ Len(visualMap) = Len(sortedPoints)
        /\ Len(visualMap) <= 2 * Len(AllProps) + 1
        /\ WalkIterations = Len(sortedPoints) - 1

\* C20 witness: a build of two properties whose starts and ends are four
\* distinct non-zero times, so that the bound 2 * 2 + 1 is attained and the
\* walk makes four iterations.
C20_Witness ==
    /\ Built
    /\ Len(AllProps) = 2
    /\ Len(visualMap) = 5
    /\ WalkIterations = 4

\* leftPercent of the bar of the property p.
LeftPercent(p) == PercentAt(p.delay)

\* C21: for every property with 0 <= delay and duration >= 0 the rendered
\* bar lies inside the axis: 0 <= left, width >= 0 and left + width <= 100,
\* where left = getPercent(delay) and
\* width = getPercent(delay + duration) - getPercent(delay).
C21_BarInsideAxis ==
    Built =>
        \A p \in PropSet(AllProps) :
            (p.delay >= 0 /\ p.duration >= 0) =>
                /\ Leq(Num(0), LeftPercent(p))
                /\ Leq(Num(0), BarWidth(p))
                /\ Leq(Add(LeftPercent(p), BarWidth(p)), Num(100))

\* C21 witness: a bar that starts after the origin and ends before the end
\* of the axis, next to a bar that ends the axis.
C21_Witness ==
    /\ Built
    /\ \E p \in PropSet(AllProps) :
          /\ p.delay > 0 /\ p.duration > 0
          /\ Less(Num(0), LeftPercent(p))
          /\ Less(Num(0), BarWidth(p))
          /\ Less(PercentAt(p.delay + p.duration), Num(100))

\* C22: the scale the HTML export computes inline for a group is the scale
\* createVisualTimeScale computes for the group's tracks: the same
\* maxRealDuration / totalDuration and the same getPercent(t) at every t.
C22_ExportEquivalent ==
    (Built /\ exported.done) =>
        /\ exported.maxRealDuration = totalDuration
        /\ \A t \in QueryTimes : ExportGetPercent(exported, t) = PercentAt(t)

\* C22 witness: both computations have run on a group with a compressed gap
\* and a time that falls inside a segment.
C22_Witness ==
    /\ Built
    /\ exported.done
    /\ \E k \in Segments : Contribution(k) < sortedPoints[k + 1] - sortedPoints[k]
    /\ \E t \in QueryTimes :
          /\ Less(Num(0), ExportGetPercent(exported, t))
          /\ Less(ExportGetPercent(exported, t), Num(100))

\* The interval of p contains the whole segment k.
ContainsSegment(p, k) ==
    p.delay <= sortedPoints[k] /\ sortedPoints[k + 1] <= p.delay + p.duration

\* x lies strictly inside the segment k.
InsideSegment(x, k) == sortedPoints[k] < x /\ x < sortedPoints[k + 1]

\* C23: for intervals with start <= end, the midpoint test classifies the
\* segment between adjacent time points as active exactly when some interval
\* contains the whole segment; no interval starts or ends inside a segment,
\* and a zero-length interval never makes a segment active.
C23_MidpointTest ==
    (Built /\ \A q \in PropSet(AllProps) : q.duration >= 0) =>
        \A k \in Segments :
            /\ IsActive(AllProps, sortedPoints[k], sortedPoints[k + 1])
                  <=> \E p \in PropSet(AllProps) : ContainsSegment(p, k)
            /\ Contribution(k) =
                  IF \E p \in PropSet(AllProps) : ContainsSegment(p, k)
                  THEN sortedPoints[k + 1] - sortedPoints[k]
                  ELSE Min(sortedPoints[k + 1] - sortedPoints[k], MAX_EMPTY_GAP_VISUAL)
            /\ \A p \in PropSet(AllProps) :
                  /\ ~InsideSegment(p.delay, k)
                  /\ ~InsideSegment(p.delay + p.duration, k)
                  /\ CoversMid(p, sortedPoints[k], sortedPoints[k + 1])
                        => ContainsSegment(p, k)
                  /\ p.duration = 0
                        => ~CoversMid(p, sortedPoints[k], sortedPoints[k + 1])

\* C23 witness: a build with an active segment, an idle segment longer than
\* the cap and a zero-length interval at the end of the idle segment.
C23_Witness ==
    /\ Built
    /\ \A q \in PropSet(AllProps) : q.duration >= 0
    /\ \E k \in Segments : IsActive(AllProps, sortedPoints[k], sortedPoints[k + 1])
    /\ \E k \in Segments :
          /\ ~IsActive(AllProps, sortedPoints[k], sortedPoints[k + 1])
          /\ sortedPoints[k + 1] - sortedPoints[k] > MAX_EMPTY_GAP_VISUAL
          /\ \E p \in PropSet(AllProps) :
                p.duration = 0 /\ p.delay = sortedPoints[k + 1]

\* The segment k is idle and longer than the cap.
LongIdle(k) ==
    /\ ~IsActive(AllProps, sortedPoints[k], sortedPoints[k + 1])
    /\ sortedPoints[k + 1] - sortedPoints[k] > MAX_EMPTY_GAP_VISUAL

\* C24: for a non-empty set of intervals with 0 <= start <= end and
\* totalDuration > 0, totalVisualDuration <= totalDuration, with equality
\* exactly when no idle segment is longer than 60 ms, and at every table
\* entry the accumulated visual length is at most the real time.
C24_VisualAtMostReal ==
    (Built /\ AllProps # <<>> /\ WellFormed /\ totalDuration > 0) =>
        /\ totalVisualDuration <= totalDuration
        /\ totalVisualDuration = totalDuration <=> ~\E k \in Segments : LongIdle(k)
        /\ \A i \in DOMAIN visualMap : visualMap[i].visual <= visualMap[i].real

\* C24 witness: a well-formed build with an idle segment longer than the cap
\* in front of an active one, so that the total visual length is strictly
\* below the total duration.
C24_Witness ==
    /\ Built
    /\ AllProps # <<>>
    /\ WellFormed
    /\ \E k \in Segments : LongIdle(k) /\ k + 1 \in Segments
    /\ 0 < totalVisualDuration
    /\ totalVisualDuration < totalDuration

----------------------------------------------------------------------------
(* Properties of the editor *)

\* All properties of the edited group.
EditorProps == FlatMap(group.tracks)

\* group.tracks as createVisualTimeScale reads them: delay and duration.
HandedTracks ==
    [k \in DOMAIN group.tracks |->
        Track([j \in DOMAIN group.tracks[k].properties |->
                 Prop(group.tracks[k].properties[j].delay,
                      group.tracks[k].properties[j].duration)])]

\* C25: starting from DEFAULT_PROJECT, after any sequence of addTrack,
\* addProperty, removeProperty, updateProperty of non-timing fields,
\* drag-reorders and handleTimeChange edits with any integer value, every
\* property has delay >= 0 and duration > 0, so every interval handed to
\* createVisualTimeScale has 0 <= start < end.
C25_TimingInvariant ==
    /\ \A k \in DOMAIN EditorProps :
          EditorProps[k].delay >= 0 /\ EditorProps[k].duration > 0
    /\ \A p \in PropSet(FlatMap(HandedTracks)) :
          0 <= p.delay /\ p.delay < p.delay + p.duration

\* C25 witness: a negative value was typed into an End input (duration 10),
\* a start was moved past its end (delay 450, duration 100), the two
\* properties were reordered and their track was dragged below an added one.
C25_Witness ==
    /\ Len(group.tracks) = 2
    /\ group.tracks[2].id = 0
    /\ Len(group.tracks[2].properties) = 2
    /\ group.tracks[2].properties[1].id = 2
    /\ \E k \in DOMAIN EditorProps : EditorProps[k].duration = 10
    /\ \E k \in DOMAIN EditorProps :
          EditorProps[k].delay = 450 /\ EditorProps[k].duration = 100

\* The property the row r = <<track index, property index>> of g shows.
RowProp(g, r) == g.tracks[r[1]].properties[r[2]]

\* What handleTimeChange on the row r does to the property of the row.
TimeChangeEffect(r, field, value) ==
    LET old == RowProp(group, r)
        new == RowProp(HandleTimeChangeOf(group, r[1], r[2], field, value), r)
        end == old.delay + old.duration
    IN /\ (field = "start" /\ Max(0, value) < end) =>
             /\ new.delay = Max(0, value)
             /\ new.delay + new.duration = end
       /\ (field = "start" /\ Max(0, value) >= end) =>
             /\ new.delay = Max(0, value)
             /\ new.duration = 100
       /\ field = "end" =>
             /\ new.delay = old.delay
             /\ new.delay + new.duration = Max(old.delay + 10, value)
       /\ new.id = old.id
       /\ new.to = old.to

\* handleTimeChange on the row r leaves every other row, and the tracks'
\* ids and sizes, as they were.
TimeChangeFrame(r, field, value) ==
    LET g == HandleTimeChangeOf(group, r[1], r[2], field, value)
    IN /\ g.id = group.id
       /\ Len(g.tracks) = Len(group.tracks)
       /\ \A k \in DOMAIN group.tracks :
             /\ g.tracks[k].id = group.tracks[k].id
             /\ Len(g.tracks[k].properties) = Len(group.tracks[k].properties)
       /\ \A q \in Rows : q # r => RowProp(g, q) = RowProp(group, q)

\* C26: handleTimeChange on 'start' with max(0, value) below the current end
\* keeps the end and otherwise sets the duration to 100; on 'end' it keeps
\* the delay and sets the end to max(start + 10, value); in both cases only
\* the targeted property of the targeted track changes.
C26_TimeChange ==
    Idle =>
        \A r \in Rows : \A field \in {"start", "end"} : \A value \in TimeInputs :
            TimeChangeEffect(r, field, value) /\ TimeChangeFrame(r, field, value)

\* seq without the item at index i.
RemoveAt(seq, i) == SubSeq(seq, 1, i - 1) \o SubSeq(seq, i + 1, Len(seq))

Count(seq, x) == Cardinality({k \in DOMAIN seq : seq[k] = x})

\* b holds the items of a, each as often as a does.
IsPermutation(a, b) ==
    /\ Len(a) = Len(b)
    /\ \A k \in DOMAIN a : Count(a, a[k]) = Count(b, a[k])

C29_PropDragOver ==
    [][\A r \in Rows :
          HandlePropDragOver(r[1], r[2]) =>
              IF \/ draggedProp = NoProp
                 \/ draggedProp.trackIndex # r[1]
                 \/ draggedProp.propIndex = r[2]
              THEN group' = group /\ draggedProp' = draggedProp
              ELSE /\ group'.id = group.id
                   /\ Len(group'.tracks) = Len(group.tracks)
                   /\ \A k \in DOMAIN group.tracks :
                        /\ group'.tracks[k].id = group.tracks[k].id
                        /\ k # r[1] => group'.tracks[k] = group.tracks[k]
                   /\ IsPermutation(group.tracks[r[1]].properties,
                                    group'.tracks[r[1]].properties)
                   /\ draggedProp' = [trackIndex |-> r[1], propIndex |-> r[2]]
                   /\ RowProp(group', r) = RowProp(group, <<r[1], draggedProp.propIndex>>)]_vars

\* C29 witness: the first property of DEFAULT_PROJECT is being dragged below
\* the second one, and a second track has a row to hover.
C29_Witness ==
    /\ Len(group.tracks) >= 2
    /\ Len(group.tracks[1].properties) = 2
    /\ Len(group.tracks[2].properties) >= 1
    /\ draggedProp = [trackIndex |-> 1, propIndex |-> 2]
    /\ group.tracks[1].properties[2].id = 1

----------------------------------------------------------------------------
(* Properties of the project *)

\* project.groups has a group with the activeGroupId.
ActiveGroupExists ==
    /\ project.groups # <<>>
    /\ project.activeGroupId \in GroupIds(project)

\* C27: after any sequence of addGroup, deleteGroup, group selection,
\* updateActiveGroup and accepted imports from DEFAULT_PROJECT,
\* project.groups is non-empty and activeGroupId is the id of one of its
\* groups; deleteGroup changes nothing when one group remains.
C27_ProjectInvariant ==
    /\ []ActiveGroupExists
    /\ [][\A id \in GroupIds(project) :
            (DeleteGroup(id) /\ Len(project.groups) <= 1) => project' = project]_vars

\* The file is rejected: it fails to parse, has no groups array or has no
\* activeGroupId.
Rejected(file) ==
    \/ file.kind # "object"
    \/ file.groupsKind # "array"
    \/ file.activeGroupId = NoId

\* C30: handleFileImport leaves the project unchanged when the file fails
\* to parse as JSON, has no groups array or has no activeGroupId; after an
\* accepted import whose activeGroupId matches no group, activeGroupId is
\* the id of the first imported group.
C30_FileImport ==
    [][\A file \in Files :
          HandleFileImport(file) =>
              IF Rejected(file) THEN project' = project /\ rendered' = rendered
              ELSE (\A k \in DOMAIN file.groups : file.groups[k].id # file.activeGroupId)
                   => /\ file.groups # <<>>
                      /\ project'.groups = file.groups
                      /\ project'.activeGroupId = file.groups[1].id]_vars

====
